---- MODULE Spec2Model ----
(***************************************************************************)
(* email-mcp: a model of the mailbox client (src/imap.ts), the relay send  *)
(* client (src/smtp.ts) and the start-up validation of src/index.ts.       *)
(*                                                                         *)
(* Every exported operation is an async function; each `await` is a point  *)
(* where another tool call may run, so each awaited library call is one    *)
(* step of the operation.  The library (ImapFlow, nodemailer) is the       *)
(* environment: each of its calls either resolves or rejects.              *)
(***************************************************************************)
EXTENDS Integers, Sequences, FiniteSets, TLC

VARIABLES
    env,         \* process.env: the named settings, each a string or Undef
    phase,       \* "startup" | "serving" | "exited" (index.ts) | "imported"
    sessions,    \* sid -> the live ImapFlow / transporter object, or NoSession
    issued,      \* the commands the running operations issued: [task, sid, cmd]
    mailbox,     \* the remote store: mailbox name -> set of UIDs in it
    seen,        \* the remote store: mailbox name -> the UIDs flagged \Seen
    structure,   \* the remote store: the body structure the server reports
    kind,        \* per task: the operation it runs
    pc,          \* per task: where the operation stands
    client,      \* per task: the local `client` / `transporter` (a sid, 0 = none)
    args,        \* per task: the operation's arguments
    loc,         \* per task: the operation's local variables
    primary,     \* per task: how the try block ended (return value or error)
    outcome      \* per task: what the caller received

vars == <<env, phase, sessions, issued, mailbox, seen, structure,
          kind, pc, client, args, loc, primary, outcome>>

-----------------------------------------------------------------------------
(* Bounds of the model *)

\* tasks (tool calls) that can be in flight together
NumTasks == 2
\* largest UID of the small store
MaxUid == 2
\* largest mailbox size of the pagination specification
MaxTotal == 24
\* largest page number of the pagination specification
MaxPage == 4
\* largest page size of the pagination specification
MaxPageSize == 7
\* largest UID of the search specification
MaxSearchUid == 5
\* largest limit of the search specification
MaxLimit == 3

-----------------------------------------------------------------------------
(* JavaScript values *)

\* undefined (an unset environment variable, a missing property)
Undef == "<undefined>"

\* JavaScript truthiness of a string-or-undefined value
Truthy(v) == v # Undef /\ v # ""

\* a ?? b
Nullish(a, b) == IF a = Undef THEN b ELSE a

\* the absent number (newUid: number | undefined); UIDs are positive
NoUid == 0

Max(a, b) == IF a >= b THEN a ELSE b
Min(a, b) == IF a <= b THEN a ELSE b

Range(s) == {s[i] : i \in 1..Len(s)}

-----------------------------------------------------------------------------
(* Connection configuration: src/index.ts 8-34, getImapConfig, getSmtpConfig *)

\* parseInt(s, 10) of the port strings the model uses
ParseInt(s) ==
    CASE s = "993" -> 993
      [] s = "143" -> 143
      [] s = "465" -> 465
      [] s = "587" -> 587
      [] s = "25" -> 25
      [] s = "2525" -> 2525
      [] OTHER -> -1

NoAuth == [present |-> FALSE, user |-> Undef, pass |-> Undef]

\* index.ts: the start-up checks; TRUE when the process goes on to serve
StartupOk(e) ==
    LET imapSecurity == Nullish(e.IMAP_SECURITY, "ssl")
        smtpSecurity == Nullish(e.SMTP_SECURITY, "ssl")
    IN  /\ Truthy(e.EMAIL_ADDRESS)
        /\ Truthy(e.IMAP_HOST)
        /\ Truthy(e.SMTP_HOST)
        /\ ~(~Truthy(e.EMAIL_PASSWORD) /\ imapSecurity # "none")
        /\ ~(~Truthy(e.EMAIL_PASSWORD) /\ smtpSecurity # "none")

\* getImapConfig: throws when IMAP_HOST is missing
ImapConfigThrows(e) == ~Truthy(e.IMAP_HOST)

\* the username both resolvers compute
ResolveUsername(e) == Nullish(e.EMAIL_USERNAME, Nullish(e.EMAIL_ADDRESS, ""))

\* getImapConfig: the options object handed to new ImapFlow(...)
GetImapConfig(e) ==
    LET security == Nullish(e.IMAP_SECURITY, "ssl")
        defaultPort == IF security = "ssl" THEN "993" ELSE "143"
        username == ResolveUsername(e)
        password == Nullish(e.EMAIL_PASSWORD, "")
    IN  [ protocol |-> "imap",
          host |-> e.IMAP_HOST,
          port |-> ParseInt(Nullish(e.IMAP_PORT, defaultPort)),
          security |-> security,
          secure |-> IF security = "starttls" THEN FALSE ELSE security = "ssl",
          requireTLS |-> FALSE,
          rejectUnauthorized |-> (e.SSL_VERIFY # "false"),
          auth |-> IF Truthy(password) \/ security # "none"
                   THEN [present |-> TRUE, user |-> username, pass |-> password]
                   ELSE NoAuth ]

\* getSmtpConfig: throws when SMTP_HOST is missing
SmtpConfigThrows(e) == ~Truthy(e.SMTP_HOST)

\* getSmtpConfig: the options object handed to nodemailer.createTransport(...)
GetSmtpConfig(e) ==
    LET security == Nullish(e.SMTP_SECURITY, "ssl")
        defaultPort == IF security = "ssl" THEN "465"
                       ELSE IF security = "starttls" THEN "587" ELSE "25"
        username == ResolveUsername(e)
        password == Nullish(e.EMAIL_PASSWORD, "")
    IN  [ protocol |-> "smtp",
          host |-> e.SMTP_HOST,
          port |-> ParseInt(Nullish(e.SMTP_PORT, defaultPort)),
          security |-> security,
          secure |-> (security = "ssl"),
          requireTLS |-> (security = "starttls"),
          rejectUnauthorized |-> (e.SSL_VERIFY # "false"),
          auth |-> IF Truthy(password) \/ security # "none"
                   THEN [present |-> TRUE, user |-> username, pass |-> password]
                   ELSE NoAuth ]

\* the environments of the configuration specification
TextValues(v) == {Undef, "", v}
SecurityValues == {Undef, "", "ssl", "starttls", "none"}
AllEnvs ==
    [ EMAIL_ADDRESS : TextValues("me@example.org"),
      EMAIL_USERNAME : TextValues("me"),
      EMAIL_PASSWORD : TextValues("secret"),
      IMAP_HOST : {Undef, "imap.example.org"},
      SMTP_HOST : {Undef, "smtp.example.org"},
      IMAP_PORT : {Undef},
      SMTP_PORT : {Undef, "2525"},
      IMAP_SECURITY : SecurityValues,
      SMTP_SECURITY : SecurityValues,
      SSL_VERIFY : {Undef} ]

\* one environment that passes the start-up checks
ServingEnv ==
    [ EMAIL_ADDRESS |-> "me@example.org",
      EMAIL_USERNAME |-> Undef,
      EMAIL_PASSWORD |-> "secret",
      IMAP_HOST |-> "imap.example.org",
      SMTP_HOST |-> "smtp.example.org",
      IMAP_PORT |-> Undef,
      SMTP_PORT |-> Undef,
      IMAP_SECURITY |-> Undef,
      SMTP_SECURITY |-> "starttls",
      SSL_VERIFY |-> Undef ]

-----------------------------------------------------------------------------
(* Values the operations compute with *)

Tasks == 1..NumTasks

NoResult == [tag |-> "none"]
Return(v) == [tag |-> "return", val |-> v]
Throw(msg) == [tag |-> "throw", err |-> msg]

NoBody == [set |-> FALSE, from |-> ""]
Body(part) == [set |-> TRUE, from |-> part]
\* download(uid, undefined): the whole message
Whole == "<whole>"

NoArgs ==
    [ mailbox |-> "INBOX", page |-> 1, pageSize |-> 1, uid |-> 1, limit |-> 1,
      destination |-> "Archive", criteria |-> [seen |-> Undef],
      isHtml |-> FALSE ]

NoLocals ==
    [ total |-> 0, start |-> 0, end |-> 0, query |-> {}, selectedUids |-> <<>>,
      textPart |-> Undef, htmlPart |-> Undef, textBody |-> NoBody,
      htmlBody |-> NoBody, attachments |-> <<>>, matched |-> {},
      searched |-> FALSE, moveResult |-> <<>>, message |-> <<>>,
      downloads |-> <<>>, logout |-> "pending" ]

\* the elements of a set of integers, ascending
RECURSIVE Ascending(_)
Ascending(S) ==
    IF S = {} THEN <<>>
    ELSE LET m == CHOOSE x \in S : \A y \in S : x <= y
         IN  <<m>> \o Ascending(S \ {m})

RECURSIVE Reverse(_)
Reverse(s) == IF s = <<>> THEN <<>> ELSE Reverse(Tail(s)) \o <<Head(s)>>

\* Array.prototype.sort((a, b) => b.uid - a.uid): a stable sort, uid descending
RECURSIVE InsertByUidDesc(_, _)
InsertByUidDesc(m, s) ==
    IF s = <<>> THEN <<m>>
    ELSE IF Head(s).uid - m.uid < 0 THEN <<m>> \o s
    ELSE <<Head(s)>> \o InsertByUidDesc(m, Tail(s))

RECURSIVE SortByUidDesc(_)
SortByUidDesc(s) ==
    IF s = <<>> THEN <<>>
    ELSE InsertByUidDesc(s[Len(s)], SortByUidDesc(SubSeq(s, 1, Len(s) - 1)))

\* messageToSummary: the fetched record mapped to its summary (the envelope
\* fields are carried by uid; the address and date formatting is not modelled)
MessageToSummary(msg) == [uid |-> msg.uid]

MapSummaries(msgs) == [i \in 1..Len(msgs) |-> MessageToSummary(msgs[i])]

\* the records a fetch returns for a list of UIDs, in the order given
Fetched(uids) == [i \in 1..Len(uids) |-> [uid |-> uids[i]]]

\* the orders in which the server may answer a multi-message fetch
Orders == {"ascending", "descending"}
InOrder(order, uidsAscending) ==
    IF order = "ascending" THEN uidsAscending ELSE Reverse(uidsAscending)

-----------------------------------------------------------------------------
(* listEmails: the page window, src/imap.ts 135-141 *)

\* const end = total - (page - 1) * pageSize
PageEndOffByOne(total, page, pageSize) == total - page * pageSize
PageEnd(total, page, pageSize) == total - (page - 1) * pageSize

\* const start = Math.max(1, end - pageSize + 1)
PageStart(end, pageSize) == Max(1, end - pageSize + 1)

\* the page is empty: total === 0, or end < 1
PageEmptyOnlyZero(total, end) == total = 0
PageEmpty(total, end) == total = 0 \/ end < 1

-----------------------------------------------------------------------------
(* searchEmails: src/imap.ts 336-349 *)

\* the query built from the criteria: the fields copied into it
CriteriaFields == {"from", "to", "subject", "since", "before", "body"}
BuildQuery(criteria) ==
    {f \in CriteriaFields \cap DOMAIN criteria : Truthy(criteria[f])}
      \cup (IF "seen" \in DOMAIN criteria /\ criteria["seen"] # Undef
            THEN {"seen"} ELSE {})

\* uids.slice(-limit), limit >= 0
SliceFirst(uids, limit) == SubSeq(uids, 1, Min(limit, Len(uids)))
SliceLast(uids, limit) ==
    IF limit = 0 THEN uids
    ELSE SubSeq(uids, Max(1, Len(uids) - limit + 1), Len(uids))

-----------------------------------------------------------------------------
(* Body-structure walker: collectAttachments and findPart, src/imap.ts 169-221 *)

\* A node of the body structure.  childNodes is <<>> when the property is
\* missing and <<kids>> when the node carries the array kids.
Node(type, part, size, disposition, dispFilename, paramName, childNodes) ==
    [ type |-> type, part |-> part, size |-> size, disposition |-> disposition,
      dispFilename |-> dispFilename, paramName |-> paramName,
      childNodes |-> childNodes ]

\* for (const child of node.childNodes), guarded by if (node.childNodes)
Children(node) == IF node.childNodes = <<>> THEN <<>> ELSE node.childNodes[1]

\* node.dispositionParameters?.["filename"] ?? node.parameters?.["name"]
FilenameOf(node) == Nullish(node.dispFilename, node.paramName)

\* the test of collectAttachments.walk: is the node pushed?
Qualifies(node) ==
    /\ node.disposition = "attachment" \/ node.disposition = "inline"
    /\ node.disposition = "attachment" \/ Truthy(FilenameOf(node))

AttachmentInfo(node) ==
    [filename |-> FilenameOf(node), size |-> node.size, contentType |-> node.type]

RECURSIVE WalkAttachments(_), WalkAttachmentsOfList(_)
WalkAttachments(node) ==
    (IF Qualifies(node) THEN <<AttachmentInfo(node)>> ELSE <<>>)
        \o WalkAttachmentsOfList(Children(node))
WalkAttachmentsOfList(kids) ==
    IF kids = <<>> THEN <<>>
    ELSE WalkAttachments(Head(kids)) \o WalkAttachmentsOfList(Tail(kids))

\* collectAttachments(structure); the argument is <<>> for undefined
CollectAttachments(st) == IF st = <<>> THEN <<>> ELSE WalkAttachments(st[1])

RECURSIVE WalkFind(_, _), WalkFindInList(_, _)
WalkFindStopsAtMatch(node, type) ==
    IF node.type = type THEN node.part
    ELSE WalkFindInList(Children(node), type)
WalkFind(node, type) ==
    IF node.type = type /\ Truthy(node.part) THEN node.part
    ELSE WalkFindInList(Children(node), type)
WalkFindInList(kids, type) ==
    IF kids = <<>> THEN Undef
    ELSE LET found == WalkFind(Head(kids), type)
         IN  IF Truthy(found) THEN found ELSE WalkFindInList(Tail(kids), type)

\* findPart(structure, type); the first argument is <<>> for undefined
FindPart(st, type) == IF st = <<>> THEN Undef ELSE WalkFind(st[1], type)

-----------------------------------------------------------------------------
(* moveEmail: the result of messageMove, src/imap.ts 385-393 *)

\* messageMove resolved with false
MoveFalse == [truthy |-> FALSE, hasUidMap |-> FALSE, uidMap |-> <<>>]
\* messageMove resolved with an object, with or without a uidMap
MoveDone(hasUidMap, uidMap) ==
    [truthy |-> TRUE, hasUidMap |-> hasUidMap, uidMap |-> uidMap]

\* result.uidMap.get(uid)
UidMapGet(uidMap, uid) == IF uid \in DOMAIN uidMap THEN uidMap[uid] ELSE NoUid

\* if (!result) throw ...
MoveThrowsNever(result) == FALSE
MoveThrows(result) == ~result.truthy

\* let newUid; if (result.uidMap) newUid = result.uidMap.get(uid)
NewUidOf(result, uid) ==
    IF result.hasUidMap THEN UidMapGet(result.uidMap, uid) ELSE NoUid

-----------------------------------------------------------------------------
(* The finally block of every mailbox operation: src/imap.ts 88-90 etc. *)

\* } finally { await client.logout().catch(() => {}); }
\* the caller receives what the try block produced, whatever logout did
FinallyOutcomeUncaught(tryResult, logoutOk) ==
    IF logoutOk THEN tryResult ELSE Throw("logout failed")
FinallyOutcome(tryResult, logoutOk) == tryResult

\* no object: the identity sid is free
NoSession ==
    [creator |-> 0, cfg |-> <<>>, conn |-> "none", selected |-> "", readOnly |-> FALSE]

Sids == 1..NumTasks

\* createClient(): new ImapFlow(...) on every call, an object distinct from
\* every live one; live is the set of identities in use
CreateClientCached(live) == 1
CreateClient(live) == CHOOSE sid \in Sids \ live : \A t \in Sids \ live : sid <= t

Live(ss) == {sid \in Sids : ss[sid].creator # 0}

-----------------------------------------------------------------------------
(* Steps shared by the operations *)

MailboxOps ==
    {"listMailboxes", "listEmails", "fetchEmail", "searchEmails", "moveEmail",
     "deleteEmail"}

\* mailboxOpen(mailbox, { readOnly: true }) against mailboxOpen(mailbox)
ReadOnlyOpsNone == {}
ReadOnlyOps == {"listEmails", "fetchEmail", "searchEmails"}

InFlight(p) == pc[p] \notin {"idle", "done"}

Command(p, c) == [task |-> p, sid |-> client[p], cmd |-> c]

\* the operation moves on: its position, locals and the commands it issues
Step(p, newPc, newLoc, newPrimary, cmds) ==
    /\ pc' = [pc EXCEPT ![p] = newPc]
    /\ loc' = [loc EXCEPT ![p] = newLoc]
    /\ primary' = [primary EXCEPT ![p] = newPrimary]
    /\ issued' = issued \cup {Command(p, c) : c \in cmds}
    /\ UNCHANGED <<env, phase, structure, kind, client,
                   args, outcome>>

\* the try block ends with result (a return or a throw): the finally block
\* runs and calls client.logout()
FinishWithoutFinally(p, newLoc, result) ==
    IF result.tag = "throw"
    THEN /\ pc' = [pc EXCEPT ![p] = "done"]
         /\ loc' = [loc EXCEPT ![p] = newLoc]
         /\ primary' = [primary EXCEPT ![p] = result]
         /\ outcome' = [outcome EXCEPT ![p] = result]
         /\ UNCHANGED <<env, phase, structure, kind,
                        client, args, issued>>
    ELSE Step(p, "logout", newLoc, result, {"logout"})
Finish(p, newLoc, result) == Step(p, "logout", newLoc, result, {"logout"})

\* index.ts 8-34: the start-up checks of the server process
Startup ==
    /\ phase = "startup"
    /\ phase' = IF StartupOk(env) THEN "serving" ELSE "exited"
    /\ UNCHANGED <<env, sessions, issued, mailbox, seen, structure,
                   kind, pc, client, args, loc, primary, outcome>>

\* An exported mailbox operation is called: const client = createClient(),
\* then the try block starts with client.connect().  getImapConfig throws
\* before any client exists when IMAP_HOST is missing.
Invoke(p, k, a) ==
    /\ phase \in {"serving", "imported"}
    /\ pc[p] = "idle"
    /\ kind' = [kind EXCEPT ![p] = k]
    /\ args' = [args EXCEPT ![p] = a]
    /\ loc' = [loc EXCEPT ![p] = NoLocals]
    /\ primary' = [primary EXCEPT ![p] = NoResult]
    /\ IF ImapConfigThrows(env)
       THEN /\ pc' = [pc EXCEPT ![p] = "done"]
            /\ outcome' = [outcome EXCEPT ![p] = Throw("IMAP_HOST is required")]
            /\ client' = [client EXCEPT ![p] = 0]
            /\ UNCHANGED <<sessions, issued>>
       ELSE LET sid == CreateClient(Live(sessions))
            IN  /\ pc' = [pc EXCEPT ![p] = "connect"]
                /\ outcome' = [outcome EXCEPT ![p] = NoResult]
                /\ client' = [client EXCEPT ![p] = sid]
                /\ sessions' =
                     [sessions EXCEPT ![sid] = [ creator |-> p,
                                                cfg |-> <<GetImapConfig(env)>>,
                                                conn |-> "none",
                                                selected |-> "",
                                                readOnly |-> FALSE ]]
                /\ issued' = issued \cup
                     {[task |-> p, sid |-> sid, cmd |-> "connect"]}
    /\ UNCHANGED <<env, phase, mailbox, seen, structure>>

\* await client.connect() settles
ConnectSettle(p) ==
    /\ pc[p] = "connect"
    /\ \E ok \in BOOLEAN :
         IF ok
         THEN /\ sessions' = [sessions EXCEPT ![client[p]].conn = "open"]
              /\ IF kind[p] = "listMailboxes"
                 THEN Step(p, "list", loc[p], NoResult, {"list"})
                 ELSE Step(p, "select", loc[p], NoResult, {"mailboxOpen"})
         ELSE /\ UNCHANGED sessions
              /\ Finish(p, loc[p], Throw("connect failed"))
    /\ UNCHANGED <<mailbox, seen>>

\* await client.list() settles (listMailboxes)
ListSettle(p) ==
    /\ pc[p] = "list"
    /\ \E ok \in BOOLEAN :
         IF ok
         THEN Finish(p, loc[p], Return([mailboxes |-> Ascending({1, 2})]))
         ELSE Finish(p, loc[p], Throw("list failed"))
    /\ UNCHANGED <<sessions, mailbox, seen>>

\* what the operation does once its mailbox is selected
AfterSelect(p) ==
    LET a == args[p]
        total == Cardinality(mailbox[a.mailbox])
        end == PageEnd(total, a.page, a.pageSize)
        start == PageStart(end, a.pageSize)
    IN  CASE kind[p] = "listEmails" ->
               IF PageEmpty(total, end)
               THEN Finish(p, [loc[p] EXCEPT !.total = total],
                           Return([ total |-> total, page |-> a.page,
                                    pageSize |-> a.pageSize, emails |-> <<>> ]))
               ELSE Step(p, "fetchAll",
                         [loc[p] EXCEPT !.total = total, !.start = start,
                                        !.end = end],
                         NoResult, {"fetchAll"})
          [] kind[p] = "fetchEmail" ->
               Step(p, "fetchOne", loc[p], NoResult, {"fetchOne"})
          [] kind[p] = "searchEmails" ->
               Step(p, "search",
                    [loc[p] EXCEPT !.query = BuildQuery(a.criteria)],
                    NoResult, {"search"})
          [] kind[p] = "moveEmail" ->
               Step(p, "move", loc[p], NoResult, {"messageMove"})
          [] kind[p] = "deleteEmail" ->
               Step(p, "delete", loc[p], NoResult, {"messageDelete"})

\* await client.mailboxOpen(mailbox, ...) settles
SelectSettle(p) ==
    /\ pc[p] = "select"
    /\ \E ok \in BOOLEAN :
         IF ok
         THEN /\ sessions' =
                   [sessions EXCEPT ![client[p]].selected = args[p].mailbox,
                                    ![client[p]].readOnly =
                                         (kind[p] \in ReadOnlyOps)]
              /\ AfterSelect(p)
         ELSE /\ UNCHANGED sessions
              /\ Finish(p, loc[p], Throw("mailboxOpen failed"))
    /\ UNCHANGED <<mailbox, seen>>

\* the UIDs of the messages with sequence numbers start..end, ascending
InWindow(uids, start, end) ==
    SubSeq(Ascending(uids), start, Min(end, Cardinality(uids)))

\* await client.fetchAll(`${start}:${end}`, ...) settles (listEmails); the
\* result is sorted by uid descending and mapped to summaries
FetchAllSettle(p) ==
    /\ pc[p] = "fetchAll"
    /\ \/ \E order \in Orders :
            LET window == InWindow(mailbox[args[p].mailbox], loc[p].start,
                                   loc[p].end)
                messages == SortByUidDesc(Fetched(InOrder(order, window)))
            IN  Finish(p, loc[p],
                       Return([ total |-> loc[p].total, page |-> args[p].page,
                                pageSize |-> args[p].pageSize,
                                emails |-> MapSummaries(messages) ]))
       \/ Finish(p, loc[p], Throw("fetch failed"))
    /\ UNCHANGED <<sessions, mailbox, seen>>

-----------------------------------------------------------------------------
(* fetchEmail: src/imap.ts 245-310 *)

\* if (!textPart && !htmlPart && !msg.bodyStructure?.childNodes)
NeedsFullSourceAnyShape(textPart, htmlPart, st) ==
    ~Truthy(textPart) /\ ~Truthy(htmlPart)
NeedsFullSource(textPart, htmlPart, st) ==
    /\ ~Truthy(textPart)
    /\ ~Truthy(htmlPart)
    /\ (st = <<>> \/ st[1].childNodes = <<>>)

\* msg.bodyStructure?.type === "text/html"
FullSourceIsHtml(st) == st # <<>> /\ st[1].type = "text/html"

FetchResult(p, l) ==
    Return([ uid |-> args[p].uid, textBody |-> l.textBody,
             htmlBody |-> l.htmlBody, attachments |-> l.attachments ])

\* client.download(String(uid), part, { uid: true }) is called: downloads
\* lists the part arguments of the calls made so far
Download(l, part) == [l EXCEPT !.downloads = Append(@, part)]

\* the three download blocks in their order; after is the block just done
ContinueDownloads(p, l, after) ==
    IF after = "none" /\ Truthy(l.textPart)
    THEN Step(p, "dlText", Download(l, l.textPart), NoResult, {"download"})
    ELSE IF after \in {"none", "text"} /\ Truthy(l.htmlPart)
    THEN Step(p, "dlHtml", Download(l, l.htmlPart), NoResult, {"download"})
    ELSE IF after \in {"none", "text", "html"}
            /\ NeedsFullSource(l.textPart, l.htmlPart, structure)
    THEN Step(p, "dlFull", Download(l, Whole), NoResult, {"download"})
    ELSE Finish(p, l, FetchResult(p, l))

\* await client.fetchOne(String(uid), ..., { uid: true }) settles
FetchOneSettle(p) ==
    /\ pc[p] = "fetchOne"
    /\ \/ /\ args[p].uid \in mailbox[args[p].mailbox]
          /\ ContinueDownloads(p,
               [loc[p] EXCEPT !.attachments = CollectAttachments(structure),
                              !.textPart = FindPart(structure, "text/plain"),
                              !.htmlPart = FindPart(structure, "text/html")],
               "none")
       \/ /\ args[p].uid \notin mailbox[args[p].mailbox]
          /\ Finish(p, loc[p], Throw("Message with UID not found"))
       \/ Finish(p, loc[p], Throw("fetch failed"))
    /\ UNCHANGED <<sessions, mailbox, seen>>

\* the server has served a body of message uid on the session of task p: on
\* a mailbox selected read-only it changes nothing; on one selected
\* read-write it may flag the message \Seen
BodyServed(p) ==
    LET a == args[p]
    IN  /\ \E mark \in BOOLEAN :
             /\ mark => /\ ~sessions[client[p]].readOnly
                         /\ a.uid \in mailbox[a.mailbox]
             /\ seen' = IF mark
                        THEN [seen EXCEPT ![a.mailbox] = @ \cup {a.uid}]
                        ELSE seen
        /\ UNCHANGED <<sessions, mailbox>>

\* await client.download(String(uid), textPart, ...) and its stream settle
DownloadTextSettle(p) ==
    /\ pc[p] = "dlText"
    /\ \/ ContinueDownloads(p,
               [loc[p] EXCEPT !.textBody = Body(loc[p].textPart)], "text")
       \/ Finish(p, loc[p], Throw("download failed"))
    /\ BodyServed(p)

\* await client.download(String(uid), htmlPart, ...) and its stream settle
DownloadHtmlSettle(p) ==
    /\ pc[p] = "dlHtml"
    /\ \/ ContinueDownloads(p,
               [loc[p] EXCEPT !.htmlBody = Body(loc[p].htmlPart)], "html")
       \/ Finish(p, loc[p], Throw("download failed"))
    /\ BodyServed(p)

\* await client.download(String(uid), undefined, ...) and its stream settle
DownloadFullSettle(p) ==
    /\ pc[p] = "dlFull"
    /\ \/ LET l == IF FullSourceIsHtml(structure)
                   THEN [loc[p] EXCEPT !.htmlBody = Body(Whole)]
                   ELSE [loc[p] EXCEPT !.textBody = Body(Whole)]
          IN  Finish(p, l, FetchResult(p, l))
       \/ Finish(p, loc[p], Throw("download failed"))
    /\ BodyServed(p)

-----------------------------------------------------------------------------
(* searchEmails: src/imap.ts 345-358 *)

\* await client.search(query, { uid: true }) settles: the server answers with
\* the matching UIDs of the mailbox in ascending order, or the library with
\* false; matched is what the search matched
SearchSettle(p) ==
    /\ pc[p] = "search"
    /\ \/ \E matched \in SUBSET mailbox[args[p].mailbox] :
            LET uids == Ascending(matched)
                l == [loc[p] EXCEPT !.matched = matched, !.searched = TRUE]
            IN  IF Len(uids) = 0
                THEN Finish(p, l, Return(<<>>))
                ELSE Step(p, "searchFetch",
                          [l EXCEPT !.selectedUids =
                                        SliceLast(uids, args[p].limit)],
                          NoResult, {"fetchAll"})
       \/ Finish(p, loc[p], Return(<<>>))
       \/ Finish(p, loc[p], Throw("search failed"))
    /\ UNCHANGED <<sessions, mailbox, seen>>

\* await client.fetchAll(selectedUids.join(","), ..., { uid: true }) settles:
\* the messages of the list that the mailbox holds, sorted by uid descending
SearchFetchSettle(p) ==
    /\ pc[p] = "searchFetch"
    /\ \/ \E order \in Orders :
            LET held == Range(loc[p].selectedUids)
                          \cap mailbox[args[p].mailbox]
                messages == SortByUidDesc(Fetched(InOrder(order, Ascending(held))))
            IN  Finish(p, loc[p], Return(MapSummaries(messages)))
       \/ Finish(p, loc[p], Throw("fetch failed"))
    /\ UNCHANGED <<sessions, mailbox, seen>>

-----------------------------------------------------------------------------
(* moveEmail and deleteEmail: src/imap.ts 381-400, 415-417 *)

\* the UID the destination mailbox gives the next message it receives
NextUid(uids) ==
    1 + (CHOOSE m \in uids \cup {10} : \A u \in uids \cup {10} : u <= m)

\* what messageMove may resolve with, n being the UID the moved message gets
MoveResults(present, uid, n) ==
    IF present
    THEN {MoveFalse, MoveDone(FALSE, <<>>), MoveDone(TRUE, <<>>),
          MoveDone(TRUE, uid :> n)}
    ELSE {MoveFalse, MoveDone(FALSE, <<>>), MoveDone(TRUE, <<>>)}

\* await client.messageMove(String(uid), destination, { uid: true }) settles
MoveSettle(p) ==
    /\ pc[p] = "move"
    /\ \/ LET a == args[p]
              present == a.uid \in mailbox[a.mailbox]
              n == NextUid(mailbox[a.destination])
          IN  \E result \in MoveResults(present, a.uid, n) :
                LET l == [loc[p] EXCEPT !.moveResult = <<result>>]
                IN  /\ mailbox' =
                         IF result.truthy /\ present
                         THEN [mailbox EXCEPT
                                 ![a.mailbox] = @ \ {a.uid},
                                 ![a.destination] = @ \cup {n}]
                         ELSE mailbox
                    /\ seen' =
                         IF result.truthy /\ present
                         THEN [seen EXCEPT
                                 ![a.mailbox] = @ \ {a.uid},
                                 ![a.destination] =
                                     IF a.uid \in seen[a.mailbox]
                                     THEN @ \cup {n} ELSE @]
                         ELSE seen
                    /\ IF MoveThrows(result)
                       THEN Finish(p, l, Throw("Failed to move message"))
                       ELSE Finish(p, l,
                              Return([ uid |-> a.uid, from |-> a.mailbox,
                                       to |-> a.destination,
                                       newUid |-> NewUidOf(result, a.uid) ]))
       \/ /\ Finish(p, loc[p], Throw("move failed"))
          /\ UNCHANGED <<mailbox, seen>>
    /\ UNCHANGED sessions

\* await client.messageDelete(String(uid), { uid: true }) settles
DeleteSettle(p) ==
    /\ pc[p] = "delete"
    /\ \/ \E deleted \in BOOLEAN :
            /\ deleted => args[p].uid \in mailbox[args[p].mailbox]
            /\ mailbox' =
                 IF deleted
                 THEN [mailbox EXCEPT ![args[p].mailbox] = @ \ {args[p].uid}]
                 ELSE mailbox
            /\ seen' =
                 IF deleted
                 THEN [seen EXCEPT ![args[p].mailbox] = @ \ {args[p].uid}]
                 ELSE seen
            /\ Finish(p, loc[p],
                      Return([ uid |-> args[p].uid,
                               mailbox |-> args[p].mailbox,
                               deleted |-> deleted ]))
       \/ /\ Finish(p, loc[p], Throw("delete failed"))
          /\ UNCHANGED <<mailbox, seen>>
    /\ UNCHANGED sessions

-----------------------------------------------------------------------------
(* The finally block and the return to the caller *)

\* await client.logout().catch(() => {}) settles, then the operation returns
\* or raises.  A logout that resolves has closed the connection; after a
\* logout that rejects the code issues no further command, so the connection
\* is in whatever state the library left it.
LogoutSettle(p) ==
    /\ pc[p] = "logout"
    /\ \E ok \in BOOLEAN :
         /\ IF ok
            THEN sessions' = [sessions EXCEPT ![client[p]].conn = "closed"]
            ELSE \E c \in {sessions[client[p]].conn, "closed"} :
                    sessions' = [sessions EXCEPT ![client[p]].conn = c]
         /\ outcome' = [outcome EXCEPT ![p] = FinallyOutcome(primary[p], ok)]
         /\ loc' = [loc EXCEPT ![p].logout = IF ok THEN "ok" ELSE "failed"]
    /\ pc' = [pc EXCEPT ![p] = "done"]
    /\ UNCHANGED <<env, phase, issued, mailbox, seen,
                   structure,
                   kind, client, args, primary>>

\* the tool handler of index.ts has the result or the error: the task is free
TaskEnds(p) ==
    /\ pc[p] = "done"
    /\ pc' = [pc EXCEPT ![p] = "idle"]
    /\ kind' = [kind EXCEPT ![p] = "none"]
    /\ client' = [client EXCEPT ![p] = 0]
    /\ args' = [args EXCEPT ![p] = NoArgs]
    /\ loc' = [loc EXCEPT ![p] = NoLocals]
    /\ primary' = [primary EXCEPT ![p] = NoResult]
    /\ outcome' = [outcome EXCEPT ![p] = NoResult]
    /\ sessions' = [sid \in Sids |->
                      IF sid = client[p] THEN NoSession ELSE sessions[sid]]
    /\ issued' = {c \in issued : c.task # p}
    /\ UNCHANGED <<env, phase, mailbox, seen, structure>>

-----------------------------------------------------------------------------
(* sendEmail: src/smtp.ts 52-89 *)

\* nodemailer.createTransport(...): a new transporter on every call
CreateTransport(live) == CHOOSE sid \in Sids \ live : \A t \in Sids \ live : sid <= t

\* ...(options.isHtml ? { html: body } : { text: body })
ComposeMessage(from, a) ==
    [from |-> from, slot |-> IF a.isHtml THEN "html" ELSE "text"]

\* sendEmail is called: the transporter is created from getSmtpConfig() (which
\* throws when SMTP_HOST is missing), then EMAIL_ADDRESS is checked, then the
\* try block starts with transporter.sendMail(...)
InvokeSend(p, a) ==
    /\ phase \in {"serving", "imported"}
    /\ pc[p] = "idle"
    /\ kind' = [kind EXCEPT ![p] = "sendEmail"]
    /\ args' = [args EXCEPT ![p] = a]
    /\ primary' = [primary EXCEPT ![p] = NoResult]
    /\ IF SmtpConfigThrows(env)
       THEN /\ pc' = [pc EXCEPT ![p] = "done"]
            /\ outcome' = [outcome EXCEPT ![p] = Throw("SMTP_HOST is required")]
            /\ client' = [client EXCEPT ![p] = 0]
            /\ loc' = [loc EXCEPT ![p] = NoLocals]
            /\ UNCHANGED <<sessions, issued>>
       ELSE LET sid == CreateTransport(Live(sessions))
                from == env.EMAIL_ADDRESS
            IN  /\ client' = [client EXCEPT ![p] = sid]
                /\ sessions' =
                     [sessions EXCEPT ![sid] = [ creator |-> p,
                                                cfg |-> <<GetSmtpConfig(env)>>,
                                                conn |-> "created",
                                                selected |-> "",
                                                readOnly |-> FALSE ]]
                /\ IF ~Truthy(from)
                   THEN /\ pc' = [pc EXCEPT ![p] = "done"]
                        /\ outcome' = [outcome EXCEPT ![p] =
                                         Throw("EMAIL_ADDRESS is required")]
                        /\ loc' = [loc EXCEPT ![p] = NoLocals]
                        /\ UNCHANGED issued
                   ELSE /\ pc' = [pc EXCEPT ![p] = "sendMail"]
                        /\ outcome' = [outcome EXCEPT ![p] = NoResult]
                        /\ loc' = [loc EXCEPT ![p] =
                                     [NoLocals EXCEPT !.message =
                                        <<ComposeMessage(from, a)>>]]
                        /\ issued' = issued \cup
                             {[task |-> p, sid |-> sid, cmd |-> "sendMail"]}
    /\ UNCHANGED <<env, phase, mailbox, seen, structure>>

\* await transporter.sendMail(...) settles; the finally block closes the
\* transporter and the call returns or raises
SendSettle(p) ==
    /\ pc[p] = "sendMail"
    /\ \E result \in {Return([messageId |-> "id", accepted |-> <<"to">>,
                              rejected |-> <<>>]),
                      Return([messageId |-> "id", accepted |-> <<>>,
                              rejected |-> <<"to">>]),
                      Throw("send failed")} :
         /\ primary' = [primary EXCEPT ![p] = result]
         /\ outcome' = [outcome EXCEPT ![p] = result]
    /\ sessions' = [sessions EXCEPT ![client[p]].conn = "closed"]
    /\ issued' = issued \cup {Command(p, "close")}
    /\ pc' = [pc EXCEPT ![p] = "done"]
    /\ UNCHANGED <<env, phase, mailbox, seen, structure, kind,
                   client, args, loc>>

-----------------------------------------------------------------------------
(* The inputs of the specifications *)

Leaf(type, part, size) == Node(type, part, size, Undef, Undef, Undef, <<>>)

\* multipart/alternative -> { text/plain (part 1), text/html (part 2) }
AlternativeMessage ==
    Node("multipart/alternative", Undef, 0, Undef, Undef, Undef,
         << << Leaf("text/plain", "1", 10), Leaf("text/html", "2", 20) >> >>)

\* a single-part text/html message: no part identifier, no childNodes
HtmlOnlyMessage == Leaf("text/html", Undef, 30)

\* multipart/mixed -> { text/html (part 1), application/pdf attachment (part 2) }
MixedMessage ==
    Node("multipart/mixed", Undef, 0, Undef, Undef, Undef,
         << << Leaf("text/html", "1", 10),
               Node("application/pdf", "2", 40, "attachment", "a.pdf", Undef,
                    <<>>) >> >>)

SmallStructures == {<<AlternativeMessage>>, <<HtmlOnlyMessage>>, <<MixedMessage>>}

\* the oldest message of INBOX has been read, the others have not
OldestSeen(store) ==
    [ INBOX |-> {u \in store.INBOX : \A v \in store.INBOX : u <= v},
      Archive |-> {} ]

InitStore(e, ph, store, flagged, st) ==
    /\ env = e
    /\ phase = ph
    /\ sessions = [sid \in Sids |-> NoSession]
    /\ issued = {}
    /\ mailbox = store
    /\ seen = flagged
    /\ structure = st
    /\ kind = [p \in Tasks |-> "none"]
    /\ pc = [p \in Tasks |-> "idle"]
    /\ client = [p \in Tasks |-> 0]
    /\ args = [p \in Tasks |-> NoArgs]
    /\ loc = [p \in Tasks |-> NoLocals]
    /\ primary = [p \in Tasks |-> NoResult]
    /\ outcome = [p \in Tasks |-> NoResult]

InitWith(e, ph, store, st) == InitStore(e, ph, store, OldestSeen(store), st)

\* the calls of the tools, each with arguments drawn from the sets given
InvokeListMailboxes(p) == Invoke(p, "listMailboxes", NoArgs)

InvokeListEmails(p, pages, pageSizes) ==
    \E page \in pages, pageSize \in pageSizes :
        Invoke(p, "listEmails",
               [NoArgs EXCEPT !.page = page, !.pageSize = pageSize])

InvokeFetchEmail(p, uids) ==
    \E uid \in uids : Invoke(p, "fetchEmail", [NoArgs EXCEPT !.uid = uid])

InvokeSearchEmails(p, criterias, limits) ==
    \E criteria \in criterias, limit \in limits :
        Invoke(p, "searchEmails",
               [NoArgs EXCEPT !.criteria = criteria, !.limit = limit])

InvokeMoveEmail(p, uids) ==
    \E uid \in uids : Invoke(p, "moveEmail", [NoArgs EXCEPT !.uid = uid])

InvokeDeleteEmail(p, uids) ==
    \E uid \in uids : Invoke(p, "deleteEmail", [NoArgs EXCEPT !.uid = uid])

InvokeSendEmail(p) ==
    \E isHtml \in BOOLEAN :
        InvokeSend(p, [NoArgs EXCEPT !.isHtml = isHtml])

SomeCriteria ==
    { [from |-> Undef, subject |-> Undef, seen |-> Undef],
      [from |-> "jane@x.com", subject |-> "", seen |-> "false"] }

-----------------------------------------------------------------------------
(* Spec: tool calls in flight together against one small store *)

SmallStore == [INBOX |-> 1..MaxUid, Archive |-> {}]

Init ==
    \E st \in {<<AlternativeMessage>>, <<HtmlOnlyMessage>>} :
        InitWith(ServingEnv, "serving", SmallStore, st)

Next ==
    \E p \in Tasks :
        \/ InvokeListMailboxes(p)
        \/ InvokeListEmails(p, {1}, {1})
        \/ InvokeFetchEmail(p, {1})
        \/ InvokeSearchEmails(p, {[seen |-> Undef]}, {1})
        \/ InvokeMoveEmail(p, {1})
        \/ InvokeDeleteEmail(p, {1})
        \/ InvokeSendEmail(p)
        \/ ConnectSettle(p)
        \/ ListSettle(p)
        \/ SelectSettle(p)
        \/ FetchAllSettle(p)
        \/ FetchOneSettle(p)
        \/ DownloadTextSettle(p)
        \/ DownloadHtmlSettle(p)
        \/ DownloadFullSettle(p)
        \/ SearchSettle(p)
        \/ SearchFetchSettle(p)
        \/ MoveSettle(p)
        \/ DeleteSettle(p)
        \/ SendSettle(p)
        \/ LogoutSettle(p)
        \/ TaskEnds(p)

Spec == Init /\ [][Next]_vars

-----------------------------------------------------------------------------
(* SpecOps: one tool call at a time, every mailbox operation *)

InitOps ==
    \E st \in SmallStructures, flagged \in SUBSET SmallStore.INBOX :
        InitStore(ServingEnv, "serving", SmallStore,
                  [INBOX |-> flagged, Archive |-> {}], st)

NextOps ==
    \/ InvokeListMailboxes(1)
    \/ InvokeListEmails(1, {1, 2}, {1, 2})
    \/ InvokeFetchEmail(1, 1..(MaxUid + 1))
    \/ InvokeSearchEmails(1, SomeCriteria, {1, 2})
    \/ InvokeMoveEmail(1, 1..(MaxUid + 1))
    \/ InvokeDeleteEmail(1, 1..(MaxUid + 1))
    \/ ConnectSettle(1)
    \/ ListSettle(1)
    \/ SelectSettle(1)
    \/ FetchAllSettle(1)
    \/ FetchOneSettle(1)
    \/ DownloadTextSettle(1)
    \/ DownloadHtmlSettle(1)
    \/ DownloadFullSettle(1)
    \/ SearchSettle(1)
    \/ SearchFetchSettle(1)
    \/ MoveSettle(1)
    \/ DeleteSettle(1)
    \/ LogoutSettle(1)
    \/ TaskEnds(1)

SpecOps == InitOps /\ [][NextOps]_vars

-----------------------------------------------------------------------------
(* SpecConfig: every environment, the start-up checks, and the sessions    *)
(* opened by listMailboxes and sendEmail.  phase "imported" is the modules *)
(* imap.ts and smtp.ts used without index.ts and so without its checks.    *)

InitConfig ==
    \E e \in AllEnvs, ph \in {"startup", "imported"} :
        InitWith(e, ph, SmallStore, <<AlternativeMessage>>)

NextConfig ==
    \/ Startup
    \/ InvokeListMailboxes(1)
    \/ InvokeSendEmail(1)
    \/ ConnectSettle(1)
    \/ ListSettle(1)
    \/ SendSettle(1)
    \/ LogoutSettle(1)
    \/ TaskEnds(1)

SpecConfig == InitConfig /\ [][NextConfig]_vars

-----------------------------------------------------------------------------
(* SpecPage: listEmails alone, over mailbox sizes, pages and page sizes *)

\* a mailbox of n messages; sequence number i holds UID 10 + 2 * i
StoreOfSize(n) == [INBOX |-> {10 + 2 * i : i \in 1..n}, Archive |-> {}]

InitPage ==
    \E n \in (0..MaxTotal) \cup {95} :
        InitWith(ServingEnv, "serving", StoreOfSize(n), <<AlternativeMessage>>)

NextPage ==
    \/ InvokeListEmails(1, (1..MaxPage) \cup {5, 6}, (1..MaxPageSize) \cup {20})
    \/ ConnectSettle(1)
    \/ SelectSettle(1)
    \/ FetchAllSettle(1)
    \/ LogoutSettle(1)
    \/ TaskEnds(1)

SpecPage == InitPage /\ [][NextPage]_vars

-----------------------------------------------------------------------------
(* SpecSearch: searchEmails alone, over match sets and limits *)

InitSearch ==
    InitWith(ServingEnv, "serving",
             [INBOX |-> 1..MaxSearchUid, Archive |-> {}], <<AlternativeMessage>>)

NextSearch ==
    \/ InvokeSearchEmails(1, SomeCriteria, 1..MaxLimit)
    \/ ConnectSettle(1)
    \/ SelectSettle(1)
    \/ SearchSettle(1)
    \/ SearchFetchSettle(1)
    \/ LogoutSettle(1)
    \/ TaskEnds(1)

SpecSearch == InitSearch /\ [][NextSearch]_vars

-----------------------------------------------------------------------------
(* SpecTree: fetchEmail alone, over body structures *)

\* what a node may declare about its disposition and its names
Dispositions == {Undef, "attachment", "inline"}
DispFilenames == {Undef, "", "f.bin"}
ParamNames == {Undef, "n.bin"}

\* mixed -> { related -> { png (1.1) }, text/plain (2) }: each node of the
\* tree declares any disposition and names; size tells the nodes apart
DispositionTrees ==
    { << Node("multipart/mixed", Undef, 100, dr, Undef, Undef,
              << << Node("multipart/related", Undef, 200, da, fa, na,
                         << << Node("image/png", "1.1", 400, dc, fc, nc, <<>>) >> >>),
                    Node("text/plain", "2", 300, db, fb, nb, <<>>) >> >>) >> :
        dr \in {Undef, "attachment"},
        da \in Dispositions, fa \in DispFilenames, na \in ParamNames,
        dc \in Dispositions, fc \in DispFilenames, nc \in ParamNames,
        db \in Dispositions, fb \in DispFilenames, nb \in ParamNames }

\* what a node may declare as its content type
PartTypes == {"text/plain", "text/html", "image/png"}

\* root -> { A (1) -> { C (1.1) }, B (2) }: each node below the root declares
\* any content type and carries its part identifier or none; the root
\* carries none and is a multipart or declares text/plain itself
PartTrees ==
    { << Node(tr, Undef, 100, Undef, Undef, Undef,
              << << Node(ta, pa, 200, Undef, Undef, Undef,
                         << << Leaf(tc, pc1, 400) >> >>),
                    Leaf(tb, pb, 300) >> >>) >> :
        tr \in {"multipart/mixed", "text/plain"},
        ta \in PartTypes, pa \in {Undef, "1"},
        tc \in PartTypes, pc1 \in {Undef, "1.1"},
        tb \in PartTypes, pb \in {Undef, "2"} }

\* a message of a single part, its root with or without a part identifier
SinglePartTrees == { << Leaf(t, pt, 30) >> : t \in PartTypes, pt \in {Undef, "1"} }

\* the body structures fetchOne may deliver, <<>> for none; a node that
\* carries childNodes carries at least one child
TreeInputs ==
    DispositionTrees \cup PartTrees \cup SinglePartTrees
        \cup SmallStructures \cup {<<>>}

InitTree ==
    \E st \in TreeInputs : InitWith(ServingEnv, "serving", SmallStore, st)

NextTree ==
    \/ InvokeFetchEmail(1, {1, MaxUid + 1})
    \/ ConnectSettle(1)
    \/ SelectSettle(1)
    \/ FetchOneSettle(1)
    \/ DownloadTextSettle(1)
    \/ DownloadHtmlSettle(1)
    \/ DownloadFullSettle(1)
    \/ LogoutSettle(1)
    \/ TaskEnds(1)

SpecTree == InitTree /\ [][NextTree]_vars

-----------------------------------------------------------------------------
(* SpecMove: moveEmail alone, over stores and UIDs *)

InitMove ==
    \E uids \in SUBSET (1..MaxUid) :
        InitWith(ServingEnv, "serving", [INBOX |-> uids, Archive |-> {}],
                 <<AlternativeMessage>>)

NextMove ==
    \/ InvokeMoveEmail(1, 1..MaxUid)
    \/ ConnectSettle(1)
    \/ SelectSettle(1)
    \/ MoveSettle(1)
    \/ LogoutSettle(1)
    \/ TaskEnds(1)

SpecMove == InitMove /\ [][NextMove]_vars

-----------------------------------------------------------------------------
(* Properties *)

\* the operation of task p has returned or raised to its caller
Returned(p) == pc[p] = "done"

\* task p runs mailbox operation with a client of its own
MailboxCall(p) == kind[p] \in MailboxOps /\ client[p] # 0

\* C1: every mailbox operation that has returned or raised, however its try
\* block ended, has before that called logout on the session it created.
C1_LogoutAttempted ==
    \A p \in Tasks :
        (Returned(p) /\ MailboxCall(p)) =>
            /\ sessions[client[p]].creator = p
            /\ Command(p, "logout") \in issued
            /\ loc[p].logout \in {"ok", "failed"}

\* C1 witness: the mailbox select failed and the operation has raised
C1_Witness ==
    \E p \in Tasks :
        /\ Returned(p)
        /\ kind[p] = "moveEmail"
        /\ outcome[p] = Throw("mailboxOpen failed")
        /\ Command(p, "logout") \in issued

\* C2: the caller receives what the try block produced, a result or an error,
\* whether the logout of the finally block succeeded or failed.
C2_OutcomeIsTryResult ==
    \A p \in Tasks :
        (Returned(p) /\ MailboxCall(p)) =>
            /\ primary[p].tag \in {"return", "throw"}
            /\ outcome[p] = primary[p]

\* C2 witness: the try block returned a result, the logout failed, and the
\* caller has the result
C2_Witness ==
    \E p \in Tasks :
        /\ Returned(p)
        /\ MailboxCall(p)
        /\ loc[p].logout = "failed"
        /\ primary[p].tag = "return"
        /\ outcome[p].tag = "return"

\* C3 (as claimed): once a mailbox operation has returned or raised, the
\* connection of its session is not open, also when its logout failed.
C3_NoConnectionLeftOpen ==
    \A p \in Tasks :
        (Returned(p) /\ MailboxCall(p)) => sessions[client[p]].conn # "open"

\* C4 (as claimed): once sendEmail has returned or raised, a transport it
\* created is closed.
C4_TransportClosed ==
    \A p \in Tasks :
        (Returned(p) /\ kind[p] = "sendEmail" /\ client[p] # 0) =>
            sessions[client[p]].conn = "closed"

\* C5: after the select, with N >= 1 messages, page P and page size S:
\* end = N - (P-1)*S and start = max(1, end - S + 1); no fetch is issued
\* exactly when end < 1 and the page is then empty; otherwise the window
\* fetched is [start, end], 1 <= start <= end <= N, of min(S, end) messages,
\* page 1 ends at the newest message, and the emails returned are those of
\* the window, newest first.  N = 95, S = 20: page 1 is [76, 95], page 5 is
\* [1, 15], page 6 is empty.
C5_PageWindow ==
    \A p \in Tasks :
        ( /\ kind[p] = "listEmails"
          /\ pc[p] \in {"fetchAll", "logout", "done"}
          /\ client[p] # 0
          /\ sessions[client[p]].selected # "" ) =>
            LET uids == mailbox[args[p].mailbox]
                N == Cardinality(uids)
                P == args[p].page
                S == args[p].pageSize
                end == N - (P - 1) * S
                start == IF end - S + 1 > 1 THEN end - S + 1 ELSE 1
                fetched == Command(p, "fetchAll") \in issued
                bySeq == Ascending(uids)
            IN  N >= 1 =>
                  /\ fetched <=> ~(end < 1)
                  /\ ~fetched =>
                        primary[p] = Return([ total |-> N, page |-> P,
                                              pageSize |-> S, emails |-> <<>> ])
                  /\ fetched =>
                        /\ loc[p].start = start /\ loc[p].end = end
                        /\ 1 <= start /\ start <= end /\ end <= N
                        /\ end - start + 1 = Min(S, end)
                        /\ P = 1 => end = N
                  /\ (fetched /\ primary[p].tag = "return") =>
                        /\ primary[p].val.total = N
                        /\ Len(primary[p].val.emails) = Min(S, end)
                        /\ \A i \in 1..Len(primary[p].val.emails) :
                              primary[p].val.emails[i].uid = bySeq[end - i + 1]
                  /\ (N = 95 /\ S = 20 /\ P = 1) =>
                        (fetched /\ loc[p].start = 76 /\ loc[p].end = 95)
                  /\ (N = 95 /\ S = 20 /\ P = 5) =>
                        (fetched /\ loc[p].start = 1 /\ loc[p].end = 15)
                  /\ (N = 95 /\ S = 20 /\ P = 6) => ~fetched

\* C5 witness: 95 messages, page 5 of size 20 has returned its 15 messages
C5_Witness ==
    \E p \in Tasks :
        /\ Returned(p)
        /\ kind[p] = "listEmails"
        /\ Cardinality(mailbox["INBOX"]) = 95
        /\ args[p].page = 5 /\ args[p].pageSize = 20
        /\ outcome[p].tag = "return"
        /\ Len(outcome[p].val.emails) = 15

\* C6: when the search matched the set M and the call returns, it returns
\* the summaries of the min(L, |M|) highest UIDs of M, highest first; with
\* no match it returns the empty list and has issued no fetch.
C6_SearchNewest ==
    \A p \in Tasks :
        ( /\ kind[p] = "searchEmails"
          /\ pc[p] \in {"logout", "done"}
          /\ loc[p].searched
          /\ primary[p].tag = "return" ) =>
            LET M == loc[p].matched
                L == args[p].limit
                k == Min(L, Cardinality(M))
                highestFirst == Reverse(Ascending(M))
                got == primary[p].val
            IN  /\ Len(got) = k
                /\ \A i \in 1..k : got[i] = [uid |-> highestFirst[i]]
                /\ \A i \in 1..(Len(got) - 1) : got[i].uid > got[i + 1].uid
                /\ M = {} => Command(p, "fetchAll") \notin issued

\* C6 witness: more matches than the limit, and the call has returned
C6_Witness ==
    \E p \in Tasks :
        /\ Returned(p)
        /\ kind[p] = "searchEmails"
        /\ loc[p].searched
        /\ args[p].limit = 2
        /\ Cardinality(loc[p].matched) > args[p].limit + 1
        /\ outcome[p].tag = "return"
        /\ Len(outcome[p].val) = 2

\* the nodes of a tree, each before its children, children in declared order
RECURSIVE Preorder(_), PreorderOfList(_)
Preorder(node) == <<node>> \o PreorderOfList(Children(node))
PreorderOfList(kids) ==
    IF kids = <<>> THEN <<>>
    ELSE Preorder(Head(kids)) \o PreorderOfList(Tail(kids))

\* the claim's rule: disposition attachment, or disposition inline with a
\* filename in the disposition parameters or a name in the type parameters
ClaimedAttachment(node) ==
    \/ node.disposition = "attachment"
    \/ /\ node.disposition = "inline"
       /\ Truthy(node.dispFilename) \/ Truthy(node.paramName)

\* C7 (as claimed): the attachments of a fetched message are one entry for
\* each node that is an attachment or an inline node carrying a filename, in
\* pre-order.
C7_AttachmentsInPreorder ==
    \A p \in Tasks :
        ( /\ kind[p] = "fetchEmail"
          /\ pc[p] \in {"logout", "done"}
          /\ primary[p].tag = "return"
          /\ structure # <<>> ) =>
            LET nodes == SelectSeq(Preorder(structure[1]), ClaimedAttachment)
                got == primary[p].val.attachments
            IN  /\ Len(got) = Len(nodes)
                /\ \A i \in 1..Len(nodes) :
                      /\ got[i].size = nodes[i].size
                      /\ got[i].contentType = nodes[i].type

\* the move command of task p resolved, with this result
MoveResolved(p) == loc[p].moveResult # <<>>

\* newUid as the claim gives it: the map's entry for the source uid
ClaimedNewUid(result, uid) ==
    IF result.hasUidMap /\ uid \in DOMAIN result.uidMap
    THEN result.uidMap[uid] ELSE NoUid

\* C8 (as claimed): moveEmail raises exactly when the move result is falsy,
\* and otherwise returns newUid from the map, absent without map or entry.
C8_RaisesExactlyOnFalsyResult ==
    \A p \in Tasks :
        (Returned(p) /\ kind[p] = "moveEmail") =>
            /\ outcome[p].tag = "throw" <=>
                   (MoveResolved(p) /\ ~loc[p].moveResult[1].truthy)
            /\ outcome[p].tag = "return" =>
                   outcome[p].val.newUid =
                       ClaimedNewUid(loc[p].moveResult[1], args[p].uid)

\* C8 (amended): once the move command has resolved, moveEmail raises exactly
\* when its result is falsy, and otherwise returns the uid, both mailboxes
\* and newUid from the map (absent without map or entry); when connect,
\* select or the move command fails instead, moveEmail raises that failure.
C8_RaisesOnFalsyOrFailure ==
    \A p \in Tasks :
        (Returned(p) /\ kind[p] = "moveEmail" /\ client[p] # 0) =>
            IF MoveResolved(p)
            THEN LET result == loc[p].moveResult[1]
                 IN  /\ outcome[p].tag = "throw" <=> ~result.truthy
                     /\ result.truthy =>
                          outcome[p] =
                            Return([ uid |-> args[p].uid,
                                     from |-> args[p].mailbox,
                                     to |-> args[p].destination,
                                     newUid |-> ClaimedNewUid(result,
                                                              args[p].uid) ])
            ELSE outcome[p] \in {Throw("connect failed"),
                                 Throw("mailboxOpen failed"),
                                 Throw("move failed")}

\* C8 witness: the move happened, no UID map came back, newUid is absent
C8_Witness ==
    \E p \in Tasks :
        /\ Returned(p)
        /\ kind[p] = "moveEmail"
        /\ MoveResolved(p)
        /\ loc[p].moveResult[1].truthy
        /\ ~loc[p].moveResult[1].hasUidMap
        /\ args[p].uid \notin mailbox[args[p].mailbox]
        /\ mailbox[args[p].destination] # {}
        /\ outcome[p].tag = "return"
        /\ outcome[p].val.newUid = NoUid

\* C9 (as claimed): in the serving process, a live session whose security
\* mode is ssl or starttls carries a non-empty username and password.
C9_SecuredSessionsCarryCredentials ==
    phase = "serving" =>
        \A sid \in Live(sessions) :
            LET cfg == sessions[sid].cfg[1]
            IN  cfg.security \in {"ssl", "starttls"} =>
                  /\ cfg.auth.present
                  /\ Truthy(cfg.auth.user)
                  /\ Truthy(cfg.auth.pass)

\* C10: operations in flight share no session: two running operations hold
\* different sessions, each command was issued on a session its issuer
\* created, and a mailbox operation between its connect and its own logout
\* finds its connection open and no logout issued on its session.
C10_NoSharedSession ==
    /\ \A p, q \in Tasks :
          (p # q /\ client[p] # 0 /\ client[q] # 0) => client[p] # client[q]
    /\ \A c \in issued :
          /\ sessions[c.sid].creator = c.task
          /\ client[c.task] = c.sid
    /\ \A p \in Tasks :
          (kind[p] \in MailboxOps /\ InFlight(p)
             /\ pc[p] \notin {"connect", "logout"}) =>
              /\ sessions[client[p]].conn = "open"
              /\ \A c \in issued : c.sid = client[p] => c.cmd # "logout"

\* C10 witness: one operation has logged out and returned while another,
\* started before that, is still running on its own open connection
C10_Witness ==
    \E p, q \in Tasks :
        /\ p # q
        /\ Returned(p) /\ kind[p] = "searchEmails"
        /\ loc[p].logout = "ok"
        /\ kind[q] = "deleteEmail" /\ pc[q] = "delete"
        /\ sessions[client[q]].conn = "open"
        /\ sessions[client[p]].conn = "closed"
        /\ client[p] # client[q]

\* C11: listEmails issues no fetch for an empty page: once the mailbox of
\* N messages is selected, if N = 0 or end = N - (P-1)*S is below 1, the
\* operation never waits on a fetch, no fetch command was sent on its
\* session, the try block returned {total: N, page: P, pageSize: S,
\* emails: []}, and that is what the caller receives after the logout.
C11_NoFetchOnEmptyPage ==
    \A p \in Tasks :
        ( /\ kind[p] = "listEmails"
          /\ client[p] # 0
          /\ sessions[client[p]].selected # "" ) =>
            LET N == Cardinality(mailbox[args[p].mailbox])
                P == args[p].page
                S == args[p].pageSize
                empty == [total |-> N, page |-> P, pageSize |-> S, emails |-> <<>>]
            IN  (N = 0 \/ N - (P - 1) * S < 1) =>
                  /\ pc[p] \in {"logout", "done"}
                  /\ \A c \in issued :
                        c.sid = client[p] =>
                            c.cmd \in {"connect", "mailboxOpen", "logout"}
                  /\ Command(p, "logout") \in issued
                  /\ primary[p] = Return(empty)
                  /\ Returned(p) => outcome[p] = Return(empty)

\* C11 witness: 3 messages, page 3 of size 2 (end = -1) has returned the
\* empty page with total 3
C11_Witness ==
    \E p \in Tasks :
        /\ Returned(p)
        /\ kind[p] = "listEmails"
        /\ Cardinality(mailbox["INBOX"]) = 3
        /\ args[p].page = 3 /\ args[p].pageSize = 2
        /\ outcome[p] = Return([total |-> 3, page |-> 3, pageSize |-> 2,
                                emails |-> <<>>])
        /\ Command(p, "fetchAll") \notin issued

\* findPart as the claim gives it: the part identifier of the first node in
\* pre-order whose content type is type and which carries a part
\* identifier, Undef when the tree has no such node
ClaimedFirstPart(st, type) ==
    IF st = <<>> THEN Undef
    ELSE LET nodes == Preorder(st[1])
             hits == {i \in 1..Len(nodes) :
                        nodes[i].type = type /\ Truthy(nodes[i].part)}
         IN  IF hits = {} THEN Undef
             ELSE nodes[CHOOSE i \in hits : \A j \in hits : i <= j].part

\* fetchEmail of task p has walked the body structure of its message
Walked(p) ==
    /\ kind[p] = "fetchEmail"
    /\ pc[p] \in {"dlText", "dlHtml", "dlFull"} \/ primary[p].tag = "return"

\* C12: fetchEmail downloads the whole body exactly when no text/plain and
\* no text/html part was found and the body structure has no child parts:
\* it then makes that one download and no other, and returns it as htmlBody
\* with textBody unset when the top-level type is text/html, as textBody
\* with htmlBody unset otherwise.  In every other case no whole-body
\* download is made, and textBody and htmlBody are each set exactly when
\* their own part was found, to the content of that part.
C12_WholeBodyOnlyForSinglePart ==
    \A p \in Tasks :
        Walked(p) =>
            LET textPart == ClaimedFirstPart(structure, "text/plain")
                htmlPart == ClaimedFirstPart(structure, "text/html")
                childless == structure = <<>> \/ Children(structure[1]) = <<>>
                whole == textPart = Undef /\ htmlPart = Undef /\ childless
                html == structure # <<>> /\ structure[1].type = "text/html"
                calls == loc[p].downloads
                made == {i \in 1..Len(calls) : calls[i] = Whole}
            IN  /\ made # {} => (whole /\ calls = <<Whole>>)
                /\ pc[p] = "dlFull" <=> (whole /\ primary[p].tag # "return")
                /\ primary[p].tag = "return" =>
                      LET r == primary[p].val
                      IN  IF whole
                          THEN /\ calls = <<Whole>>
                               /\ html => (r.htmlBody = Body(Whole)
                                             /\ r.textBody = NoBody)
                               /\ ~html => (r.textBody = Body(Whole)
                                              /\ r.htmlBody = NoBody)
                          ELSE /\ made = {}
                               /\ r.textBody =
                                    IF textPart = Undef THEN NoBody
                                    ELSE Body(textPart)
                               /\ r.htmlBody =
                                    IF htmlPart = Undef THEN NoBody
                                    ELSE Body(htmlPart)

\* C12 witness: the single-part text/html message has been returned with
\* the whole body as htmlBody and no textBody
C12_Witness ==
    \E p \in Tasks :
        /\ Returned(p)
        /\ kind[p] = "fetchEmail"
        /\ structure = <<HtmlOnlyMessage>>
        /\ loc[p].downloads = <<Whole>>
        /\ outcome[p].tag = "return"
        /\ outcome[p].val.htmlBody = Body(Whole)
        /\ outcome[p].val.textBody = NoBody

\* C13: the part findPart returns for text/plain and for text/html is the
\* part identifier of the first node in pre-order, children in declared
\* order, that has the type and carries a part identifier; it is absent
\* exactly when the tree has no such node, and a node of the type without
\* a part identifier hides neither its children nor its later siblings.
C13_FindPartFirstInPreorder ==
    \A p \in Tasks :
        Walked(p) =>
            \A type \in {"text/plain", "text/html"} :
                LET found == IF type = "text/plain" THEN loc[p].textPart
                             ELSE loc[p].htmlPart
                    nodes == IF structure = <<>> THEN <<>>
                             ELSE Preorder(structure[1])
                    hit(i) == nodes[i].type = type /\ Truthy(nodes[i].part)
                IN  /\ found = FindPart(structure, type)
                    /\ found = ClaimedFirstPart(structure, type)
                    /\ found = Undef <=> ~\E i \in 1..Len(nodes) : hit(i)
                    /\ found # Undef =>
                          \E i \in 1..Len(nodes) :
                              /\ hit(i) /\ nodes[i].part = found
                              /\ \A j \in 1..(i - 1) : ~hit(j)

\* C13 witness: the root and its first child declare text/plain without a
\* part identifier, the grandchild 1.1 is the first text/plain node that
\* carries one, and the sibling 2 is text/plain too: 1.1 was found
C13_Witness ==
    \E p \in Tasks :
        /\ kind[p] = "fetchEmail"
        /\ pc[p] = "dlText"
        /\ structure # <<>>
        /\ structure[1].type = "text/plain" /\ structure[1].part = Undef
        /\ Len(Children(structure[1])) = 2
        /\ Children(structure[1])[1].type = "text/plain"
        /\ Children(structure[1])[1].part = Undef
        /\ Children(structure[1])[2].type = "text/plain"
        /\ Children(structure[1])[2].part = "2"
        /\ loc[p].textPart = "1.1"

\* the operations the claim calls reading, and the commands that change
\* the store
ReadingKinds == {"listEmails", "fetchEmail", "searchEmails"}
ChangingCommands == {"messageMove", "messageDelete"}

\* this step changes, of the store, at most the message args[p].uid of the
\* mailbox of task p: it may leave that mailbox, and a move may add it to
\* the destination under a new UID with the flag it carried; every other
\* message stays where it is with its flag
ChangesOnlyNamed(p) ==
    LET a == args[p]
        arrived == mailbox'[a.destination] \ mailbox[a.destination]
    IN  /\ mailbox'[a.mailbox] \subseteq mailbox[a.mailbox]
        /\ mailbox[a.mailbox] \ mailbox'[a.mailbox] \subseteq {a.uid}
        /\ seen'[a.mailbox] = seen[a.mailbox] \cap mailbox'[a.mailbox]
        /\ mailbox[a.destination] \subseteq mailbox'[a.destination]
        /\ seen'[a.destination] \cap mailbox[a.destination] = seen[a.destination]
        /\ Cardinality(arrived) <= 1
        /\ arrived # {} =>
              /\ kind[p] = "moveEmail"
              /\ a.uid \in mailbox[a.mailbox] \ mailbox'[a.mailbox]
              /\ arrived \subseteq seen'[a.destination]
                    <=> a.uid \in seen[a.mailbox]
        /\ \A m \in DOMAIN mailbox \ {a.mailbox, a.destination} :
              mailbox'[m] = mailbox[m] /\ seen'[m] = seen[m]

\* a session with a selected mailbox is read-only exactly for the three
\* reading operations, and only moveEmail sends a move, only deleteEmail a
\* delete
C14_SelectModes ==
    /\ \A p \in Tasks :
          (client[p] # 0 /\ kind[p] \in MailboxOps
             /\ sessions[client[p]].selected # "") =>
              /\ sessions[client[p]].readOnly <=> kind[p] \in ReadingKinds
              /\ ~sessions[client[p]].readOnly
                    <=> kind[p] \in {"moveEmail", "deleteEmail"}
    /\ \A c \in issued :
          /\ c.cmd = "messageMove" => kind[c.task] = "moveEmail"
          /\ c.cmd = "messageDelete" => kind[c.task] = "deleteEmail"
          /\ kind[c.task] \in ReadingKinds => c.cmd \notin ChangingCommands

\* a step that changes the messages of a mailbox or their flags is the
\* settling of the move of a moveEmail or of the delete of a deleteEmail,
\* and changes only the message that operation names
C14_StoreFrame ==
    (mailbox' # mailbox \/ seen' # seen) =>
        \E p \in Tasks :
            /\ \/ kind[p] = "moveEmail" /\ pc[p] = "move"
               \/ kind[p] = "deleteEmail" /\ pc[p] = "delete"
            /\ pc'[p] = "logout"
            /\ ~sessions[client[p]].readOnly
            /\ ChangesOnlyNamed(p)

\* C14: listEmails, fetchEmail and searchEmails select read-only and send no
\* changing command, and no step of theirs changes the messages of any
\* mailbox or their flags; moveEmail and deleteEmail alone select
\* read-write, and each changes at most the one message its uid names.
C14_ReadersChangeNothing == []C14_SelectModes /\ [][C14_StoreFrame]_vars

\* C14 witness: fetchEmail has downloaded a body of an unread message on
\* its read-only session and returned it, and the message is still unread
C14_Witness ==
    \E p \in Tasks :
        /\ Returned(p)
        /\ kind[p] = "fetchEmail"
        /\ outcome[p].tag = "return"
        /\ loc[p].downloads # <<>>
        /\ sessions[client[p]].readOnly
        /\ args[p].uid \in mailbox[args[p].mailbox]
        /\ args[p].uid \notin seen[args[p].mailbox]

====
